---- MODULE Spec2Model ----
(***************************************************************************)
(* Model of LavishSeoAnalyzer/app.py: the /analyze and /reanalyze handlers *)
(* (perform_analysis) with the helpers extract_keywords and                *)
(* generate_meta_description.                                              *)
(*                                                                         *)
(* Text.  A Python str is modelled as the sequence of its code points.     *)
(* An ASCII code point is the one-character string itself ("a", " ", "|"). *)
(* An Arabic code point is written "U+06xx".  Chars("abc") turns an ASCII  *)
(* literal into such a sequence; Ar("ETr") does the same for Arabic text   *)
(* written in the one-symbol-per-letter transliteration of ArChar, so the  *)
(* length of every modelled string is the len() of the Python string.      *)
(***************************************************************************)
EXTENDS Integers, Sequences, FiniteSets, TLC

\* ------------------------------------------------------------------------
\* Bounds of the model
\* ------------------------------------------------------------------------

\* seeds of the random source: every seed fixes one outcome of the calls to
\* random.sample, random.shuffle and random.choice of a request
MaxSeed == 2

\* repetitions of "ab-" in the long product slug offered to the handler
LongSlugReps == 60

\* ------------------------------------------------------------------------
\* Code points
\* ------------------------------------------------------------------------

\* the function f on 1..n as a sequence
AsSeq(f, n) == SubSeq(f, 1, n)

Chars(s) == AsSeq([i \in 1..Len(s) |-> SubSeq(s, i, i)], Len(s))

ArChar ==
  "c" :> "U+0621" @@ "M" :> "U+0622" @@ "O" :> "U+0623" @@ "e" :> "U+0626" @@
  "A" :> "U+0627" @@ "b" :> "U+0628" @@ "p" :> "U+0629" @@ "t" :> "U+062A" @@
  "v" :> "U+062B" @@ "j" :> "U+062C" @@ "H" :> "U+062D" @@ "x" :> "U+062E" @@
  "d" :> "U+062F" @@ "r" :> "U+0631" @@ "z" :> "U+0632" @@ "s" :> "U+0633" @@
  "C" :> "U+0634" @@ "S" :> "U+0635" @@ "D" :> "U+0636" @@ "T" :> "U+0637" @@
  "E" :> "U+0639" @@ "f" :> "U+0641" @@ "q" :> "U+0642" @@ "k" :> "U+0643" @@
  "l" :> "U+0644" @@ "m" :> "U+0645" @@ "n" :> "U+0646" @@ "h" :> "U+0647" @@
  "w" :> "U+0648" @@ "Y" :> "U+0649" @@ "y" :> "U+064A" @@ ";" :> "U+060C"

Ar(s) ==
  AsSeq([i \in 1..Len(s) |->
           IF SubSeq(s, i, i) \in DOMAIN ArChar THEN ArChar[SubSeq(s, i, i)]
                                                ELSE SubSeq(s, i, i)],
        Len(s))

\* the code points of the model that lie in U+0600..U+06FF
ArabicRange == {ArChar[k] : k \in DOMAIN ArChar}

\* the Arabic letters (the Arabic comma U+060C is punctuation, not \w)
ArabicLetters == ArabicRange \ {"U+060C"}

LatinUpper ==
  {"A","B","C","D","E","F","G","H","I","J","K","L","M",
   "N","O","P","Q","R","S","T","U","V","W","X","Y","Z"}

LatinLower ==
  {"a","b","c","d","e","f","g","h","i","j","k","l","m",
   "n","o","p","q","r","s","t","u","v","w","x","y","z"}

Digits == {"0","1","2","3","4","5","6","7","8","9"}

Whitespace == {" ", "\n", "\t"}

\* ------------------------------------------------------------------------
\* Python str and list operations used by app.py
\* ------------------------------------------------------------------------

ToLowerChar ==
  "A" :> "a" @@ "B" :> "b" @@ "C" :> "c" @@ "D" :> "d" @@ "E" :> "e" @@
  "F" :> "f" @@ "G" :> "g" @@ "H" :> "h" @@ "I" :> "i" @@ "J" :> "j" @@
  "K" :> "k" @@ "L" :> "l" @@ "M" :> "m" @@ "N" :> "n" @@ "O" :> "o" @@
  "P" :> "p" @@ "Q" :> "q" @@ "R" :> "r" @@ "S" :> "s" @@ "T" :> "t" @@
  "U" :> "u" @@ "V" :> "v" @@ "W" :> "w" @@ "X" :> "x" @@ "Y" :> "y" @@
  "Z" :> "z"

\* str.lower()
Lower(s) ==
  AsSeq([i \in 1..Len(s) |->
           IF s[i] \in LatinUpper THEN ToLowerChar[s[i]] ELSE s[i]],
        Len(s))

\* s[:n]
Take(s, n) == SubSeq(s, 1, IF n < Len(s) THEN n ELSE Len(s))

\* s[n:]
Drop(s, n) == SubSeq(s, n + 1, Len(s))

\* s.startswith(p)
StartsWith(s, p) == Len(p) <= Len(s) /\ SubSeq(s, 1, Len(p)) = p

\* sub occurs in s at index i (1-based)
OccursAt(s, sub, i) ==
  i >= 1 /\ i + Len(sub) - 1 <= Len(s) /\ SubSeq(s, i, i + Len(sub) - 1) = sub

\* sub in s
Contains(s, sub) == \E i \in 1..(Len(s) + 1) : OccursAt(s, sub, i)

\* s.find(sub), 1-based; 0 when sub does not occur
Find(s, sub) ==
  IF Contains(s, sub)
    THEN CHOOSE i \in 1..(Len(s) + 1) :
           OccursAt(s, sub, i) /\ \A j \in 1..(i - 1) : ~OccursAt(s, sub, j)
    ELSE 0

\* s.split(sep)[0]
SplitFirst(s, sep) ==
  IF Contains(s, sep) THEN Take(s, Find(s, sep) - 1) ELSE s

\* s.split(sep)[-1]: split scans left to right and resumes after each
\* separator it has consumed
RECURSIVE SplitLast(_, _)
SplitLast(s, sep) ==
  IF Contains(s, sep)
    THEN SplitLast(Drop(s, Find(s, sep) + Len(sep) - 1), sep)
    ELSE s

\* s.rstrip(c) for a single character c
RECURSIVE RStripChar(_, _)
RStripChar(s, c) ==
  IF Len(s) > 0 /\ s[Len(s)] = c THEN RStripChar(Take(s, Len(s) - 1), c) ELSE s

RECURSIVE RStripSpace(_)
RStripSpace(s) ==
  IF Len(s) > 0 /\ s[Len(s)] \in Whitespace
    THEN RStripSpace(Take(s, Len(s) - 1)) ELSE s

RECURSIVE LStripSpace(_)
LStripSpace(s) ==
  IF Len(s) > 0 /\ s[1] \in Whitespace THEN LStripSpace(Tail(s)) ELSE s

\* s.strip()
Strip(s) == LStripSpace(RStripSpace(s))

\* sep.join(items)
RECURSIVE Join(_, _)
Join(sep, items) ==
  IF Len(items) = 0 THEN <<>>
  ELSE IF Len(items) = 1 THEN items[1]
  ELSE items[1] \o sep \o Join(sep, Tail(items))

\* list(dict.fromkeys(items)): first occurrences, in order
RECURSIVE Dedup(_)
Dedup(items) ==
  IF Len(items) = 0 THEN <<>>
  ELSE LET front == Dedup(Take(items, Len(items) - 1))
           last  == items[Len(items)]
       IN IF \E i \in 1..Len(front) : front[i] = last
            THEN front ELSE Append(front, last)

\* s.isascii(); U+00E9 stands for the non-ASCII code points outside the
\* Arabic block
IsAscii(s) == \A i \in 1..Len(s) : s[i] \notin ArabicRange \cup {"U+00E9"}

\* re.search(r'[\u0600-\u06FF]', s)
HasArabic(s) == \E i \in 1..Len(s) : s[i] \in ArabicRange

\* s repeated n times
RECURSIVE Repeat(_, _)
Repeat(s, n) == IF n = 0 THEN <<>> ELSE s \o Repeat(s, n - 1)


\* s reversed
Reverse(s) == AsSeq([i \in 1..Len(s) |-> s[Len(s) + 1 - i]], Len(s))

\* s rotated left by n places
Rotate(s, n) ==
  IF Len(s) = 0 THEN s
  ELSE AsSeq([i \in 1..Len(s) |-> s[((i - 1 + n) % Len(s)) + 1]], Len(s))

\* index of the first element of s that is in set, Len(s) + 1 when none is
FirstOf(s, set) ==
  IF \E i \in 1..Len(s) : s[i] \in set
    THEN CHOOSE i \in 1..Len(s) :
           s[i] \in set /\ \A j \in 1..(i - 1) : s[j] \notin set
    ELSE Len(s) + 1

\* index of the last occurrence of character c in s, 0 when there is none
LastIndexOf(s, c) ==
  IF \E i \in 1..Len(s) : s[i] = c
    THEN CHOOSE i \in 1..Len(s) :
           s[i] = c /\ \A j \in (i + 1)..Len(s) : s[j] # c
    ELSE 0

\* ------------------------------------------------------------------------
\* The random module.  A request's random source is fixed by its seed; the
\* call-th call draws Rand(seed, call, n) from 0..n-1.
\* ------------------------------------------------------------------------

Seeds == 0..MaxSeed

Rand(seed, call, n) == (seed * (2 * call + 1) + call) % n

\* random.sample(population, k): k distinct elements
Sample(population, k, seed, call) ==
  LET turned == Rotate(population, Rand(seed, call, Len(population)))
  IN  Take(IF seed % 2 = 1 THEN Reverse(turned) ELSE turned, k)

\* random.shuffle(items): a permutation of items
Shuffle(items, seed, call) ==
  IF Len(items) = 0 THEN items
  ELSE LET turned == Rotate(items, Rand(seed, call, Len(items)))
       IN  IF seed % 2 = 1 THEN Reverse(turned) ELSE turned

\* random.choice(items)
Choice(items, seed, call) == items[Rand(seed, call, Len(items)) + 1]

Min(a, b) == IF a < b THEN a ELSE b

\* ------------------------------------------------------------------------
\* urllib.parse
\* ------------------------------------------------------------------------

SchemeSep == Chars("://")

\* urlparse(url).scheme
UrlScheme(url) == SplitFirst(url, SchemeSep)

\* what follows "scheme://"
UrlAfterScheme(url) ==
  IF Contains(url, SchemeSep) THEN Drop(url, Find(url, SchemeSep) + 2) ELSE url

\* urlparse(url).netloc: up to the first "/", "?" or "#"
UrlNetloc(url) ==
  Take(UrlAfterScheme(url), FirstOf(UrlAfterScheme(url), {"/", "?", "#"}) - 1)

\* urlparse(url).path: after the netloc, without query and fragment, and
\* without the ";parameters" of the last segment
UrlPath(url) ==
  LET tail == Drop(UrlAfterScheme(url), Len(UrlNetloc(url)))
      full == Take(tail, FirstOf(tail, {"?", "#"}) - 1)
      from == LastIndexOf(full, "/")
      semi == FirstOf(Drop(full, from), {";"})
  IN  Take(full, from + semi - 1)

\* urljoin(base, ref) for a ref that starts with a single "/" and has no
\* "." or ".." segment: the scheme and host of base, then ref
UrlJoin(base, ref) == UrlScheme(base) \o SchemeSep \o UrlNetloc(base) \o ref

\* ------------------------------------------------------------------------
\* The fixed texts of app.py
\* ------------------------------------------------------------------------

\* the title used when the page has none (app.py 105)
NoTitle == Ar("lA ywjd EnwAn")

\* the description used when the page has none (app.py 110)
NoDescription == Ar("lA ywjd wSf")

\* the product name used when the page has no title (app.py 236)
DefaultProductName == Ar("ETr")

GenderWomenAr == Ar("nsAey")
GenderMenAr == Ar("rjAly")
GenderWomenEn == Chars("women")
GenderMenEn == Chars("men")

\* app.py 153-157
fragrance_keywords_arabic ==
  << Ar("ETr Crqy"),
     Ar("ETr nyC"),
     Ar("ETr nsAey"),
     Ar("ETr rjAly"),
     Ar("ETr fAxr"),
     Ar("ETr zhry"),
     Ar("ETr fwAkh"),
     Ar("ETr qwy"),
     Ar("vbAt EAly"),
     Ar("nwtAt Elwyp"),
     Ar("trkybp fxmp"),
     Ar("rAeHp dAemp"),
     Ar("trkyz ") \o Chars("EDP"),
     Ar("ETr rAqy"),
     Ar("ETr mnEC"),
     Ar("ETr klAsyky") >>

\* app.py 159-163
marketing_keywords_arabic ==
  << Ar("ODf llslp"),
     Ar("tswq AlMn"),
     Ar("xSwmAt"),
     Ar("ErwD"),
     Ar("OsEAr mnAsbp"),
     Ar("CHn mjAny"),
     Ar("mtjr sEwdy"),
     Ar("ETwr OSlyp"),
     Ar("xSm Alywm"),
     Ar("OrxS AlETwr"),
     Ar("ErwD xASp"),
     Ar("tswq"),
     Ar("CrAc"),
     Ar("twSyl sryE") >>

\* app.py 165-169
local_keywords_arabic ==
  << Ar("ETr fy AlryAD"),
     Ar("mtjr ETwr fy AlsEwdyp"),
     Ar("ETwr jdp"),
     Ar("twSyl fwry"),
     Ar("ETr fAxr fy AlsEwdyp"),
     Ar("mtjr ETwr nyC OwnlAyn"),
     Ar("ETwr AldmAm"),
     Ar("ETwr Almdynp"),
     Ar("ETwr mkp") >>

\* app.py 171-174
comparison_keywords_arabic ==
  << Ar("ETr bdyl"),
     Ar("mstwHY mn"),
     Ar("mvl bAkArA rwj"),
     Ar("nfs rAeHp dywr swfAj"),
     Ar("mCAbh ltwm fwrd"),
     Ar("ETr bjwdp nyC wsEr Oql"),
     Ar("bdyl ETr"),
     Ar("rAeHp mmyzp") >>

\* app.py 176-181
fragrance_keywords_english ==
  << Chars("oriental fragrance"),
     Chars("niche fragrance"),
     Chars("women's fragrance"),
     Chars("men's fragrance"),
     Chars("luxury fragrance"),
     Chars("floral fragrance"),
     Chars("fruit fragrance"),
     Chars("strong fragrance"),
     Chars("high stability"),
     Chars("top notes"),
     Chars("luxurious composition"),
     Chars("lasting aroma"),
     Chars("EDP concentration"),
     Chars("premium scent"),
     Chars("elegant perfume") >>

\* app.py 183-187
marketing_keywords_english ==
  << Chars("add to cart"),
     Chars("shop now"),
     Chars("discounts"),
     Chars("offers"),
     Chars("favorable prices"),
     Chars("free shipping"),
     Chars("Saudi store"),
     Chars("original perfumes"),
     Chars("discount today"),
     Chars("cheapest perfumes"),
     Chars("special offers"),
     Chars("buy"),
     Chars("fast delivery") >>

\* app.py 189-193
local_keywords_english ==
  << Chars("perfume in Riyadh"),
     Chars("perfume shop in Saudi Arabia"),
     Chars("Jeddah perfumes"),
     Chars("instant delivery"),
     Chars("luxury perfume in Saudi Arabia"),
     Chars("niche online perfume shop"),
     Chars("Dammam perfumes"),
     Chars("Medina perfumes"),
     Chars("Mecca perfumes") >>

\* app.py 195-199
comparison_keywords_english ==
  << Chars("alternative perfume"),
     Chars("inspired by"),
     Chars("like Baccarat Rouge"),
     Chars("same smell of Dior Sauvage"),
     Chars("similar to Tom Ford"),
     Chars("perfume with niche quality and lower price"),
     Chars("dupe fragrance"),
     Chars("signature scent") >>

\* app.py 244-255
arabic_attractive_descriptions ==
  << Ar("vbAt lA yqAwm wrAeHp mmyzp"),
     Ar("nwtAt Crqyp brAeHp fxmp"),
     Ar("rAeHp rjAlyp Twylp AlvbAt"),
     Ar("vbAt Twyl AlOmd"),
     Ar("rAeHtAn lA tqAwmAn"),
     Ar("rAeHp nyC fxmp"),
     Ar("sEr xAS wjwdp EAlyp"),
     Ar("mnAsb lkl AlOwqAt"),
     Ar("ETr fAxr blmsp nyC"),
     Ar("rAeHp Onyqp wvbAt mmyz") >>

\* app.py 258-269
english_attractive_descriptions ==
  << Chars("irresistible persistence and fragrance"),
     Chars("oriental notes with luxurious scent"),
     Chars("long-lasting masculine scent"),
     Chars("long lasting stability"),
     Chars("two irresistible smells"),
     Chars("luxurious niche scent"),
     Chars("special price and high quality"),
     Chars("suitable for all times"),
     Chars("luxury perfume with niche touch"),
     Chars("elegant scent with premium quality") >>


\* the gender words of extract_gender_info (app.py 286, 289, 293, 296)
women_words_english ==
  << Chars("woman"), Chars("women"), Chars("female"), Chars("lady"),
     Chars("her"), Chars("she") >>

men_words_english ==
  << Chars("man"), Chars("men"), Chars("male"), Chars("gentleman"),
     Chars("his"), Chars("he") >>

women_words_arabic == << Ar("nsAey"), Ar("nsAc"), Ar("AlmrOp"), Ar("llnsAc") >>

men_words_arabic == << Ar("rjAly"), Ar("rjAl"), Ar("Alrjl"), Ar("llrjAl") >>

\* ------------------------------------------------------------------------
\* The fetched page.  A page is what BeautifulSoup finds in it; an absent
\* element or attribute (None) is <<>>, a present one is <<value>>:
\*   title    soup.title.string
\*   meta     content of <meta name="description">
\*   og_image content of the first <meta property="og:image">
\*   imgs     the <img> elements in document order, each its src attribute
\*   body     the text of the body
\* ------------------------------------------------------------------------

\* app.py 104-107
ExtractTitle(page) ==
  IF page.title # <<>> /\ page.title[1] # <<>>
    THEN Strip(page.title[1]) ELSE NoTitle

\* app.py 109-113
ExtractDescription(page) ==
  IF page.meta # <<>> /\ page.meta[1] # <<>>
    THEN Strip(page.meta[1]) ELSE NoDescription

\* app.py 127-131: the src of the first <img> made absolute
AbsoluteSrc(src, url) ==
  IF StartsWith(src, Chars("//")) THEN Chars("https:") \o src
  ELSE IF StartsWith(src, Chars("/")) THEN UrlJoin(url, src)
  ELSE src

\* app.py 115-131
ExtractImage(page, url) ==
  IF page.og_image # <<>> /\ page.og_image[1] # <<>>
    THEN page.og_image[1]
  ELSE IF page.imgs # <<>> /\ page.imgs[1] # <<>> /\ page.imgs[1][1] # <<>>
    THEN AbsoluteSrc(page.imgs[1][1], url)
  ELSE <<>>

\* app.py 134: soup.get_text(separator=' '), the text nodes joined by ' '
GetText(page) == Join(<<" ">>, page.title \o <<page.body>>)

\* ------------------------------------------------------------------------
\* Tokenizer: re.findall(r'\b[\w-]{3,}\b', text)   (app.py 135)
\* ------------------------------------------------------------------------

\* \w
IsWordChar(c) ==
  c \in LatinLower \cup LatinUpper \cup Digits \cup ArabicLetters
        \cup {"_", "U+00E9"}

\* [\w-]
IsTokenChar(c) == IsWordChar(c) \/ c = "-"

\* \b between s[p] and s[p+1]
WordBoundary(s, p) ==
  (p >= 1 /\ IsWordChar(s[p])) # (p < Len(s) /\ IsWordChar(s[p + 1]))

\* the length of the run of [\w-] that starts at s[i]
RECURSIVE RunLength(_, _)
RunLength(s, i) ==
  IF i <= Len(s) /\ IsTokenChar(s[i]) THEN 1 + RunLength(s, i + 1) ELSE 0

\* the length of the match that starts at s[i], 0 when there is none: the
\* longest prefix of the run, of 3 or more, that ends at a \b
MatchLength(s, i) ==
  LET ends == {n \in 3..RunLength(s, i) : WordBoundary(s, i - 1 + n)}
  IN  IF WordBoundary(s, i - 1) /\ ends # {}
        THEN CHOOSE n \in ends : \A m \in ends : m <= n
        ELSE 0

RECURSIVE FindAllFrom(_, _)
FindAllFrom(s, i) ==
  IF i > Len(s) THEN <<>>
  ELSE IF MatchLength(s, i) > 0
    THEN <<SubSeq(s, i, i + MatchLength(s, i) - 1)>>
           \o FindAllFrom(s, i + MatchLength(s, i))
  ELSE FindAllFrom(s, i + 1)

FindAll(s) == FindAllFrom(s, 1)

\* ------------------------------------------------------------------------
\* extract_keywords   (app.py 28-43)
\* ------------------------------------------------------------------------

\* the number of occurrences of w in words
CountOf(words, w) == Cardinality({i \in 1..Len(words) : words[i] = w})

\* Counter(words).most_common(): the distinct words by falling count, words
\* of equal count in the order of their first occurrence
RECURSIVE ByCount(_, _)
ByCount(distinct, words) ==
  IF Len(distinct) = 0 THEN <<>>
  ELSE LET top == CHOOSE i \in 1..Len(distinct) :
                    /\ \A j \in 1..Len(distinct) :
                         CountOf(words, distinct[j]) <= CountOf(words, distinct[i])
                    /\ \A j \in 1..(i - 1) :
                         CountOf(words, distinct[j]) < CountOf(words, distinct[i])
       IN  <<distinct[top]>>
             \o ByCount(Take(distinct, top - 1) \o Drop(distinct, top), words)

\* the number of keywords extract_keywords returns at most (app.py 38)
MostCommonLimit == 100

extract_keywords(words, stopwords) ==
  LET filtered == SelectSeq(words, LAMBDA w :
                    /\ w \notin stopwords
                    /\ ~StartsWith(w, Chars("http"))
                    /\ Len(w) > 2)
  IN  Take(ByCount(Dedup(filtered), filtered), MostCommonLimit)

\* app.py 138-150
ArabicOf(keywords) == Dedup(SelectSeq(keywords, HasArabic))

EnglishOf(keywords) ==
  Dedup(SelectSeq(keywords, LAMBDA w : ~HasArabic(w) /\ IsAscii(w)))

\* ------------------------------------------------------------------------
\* Product name   (app.py 224-241)
\* ------------------------------------------------------------------------

ProductsSegment == Chars("/products/")

\* NameFromPath without rstrip('/')
NameFromPath_unstripped(url_path) == SplitLast(url_path, ProductsSegment)

\* app.py 231-233
NameFromPath(url_path) ==
  RStripChar(SplitLast(url_path, ProductsSegment), "/")

\* app.py 238-241: the two separators are cut one after the other
CutAtSeparators(name) ==
  LET cut1 == IF Contains(name, Chars(" | "))
                THEN SplitFirst(name, Chars(" | ")) ELSE name
  IN  IF Contains(cut1, Chars(" - "))
        THEN SplitFirst(cut1, Chars(" - ")) ELSE cut1

\* app.py 236-241
NameFromTitle(title) ==
  CutAtSeparators(IF title # <<>> /\ title # NoTitle
                    THEN title ELSE DefaultProductName)

\* app.py 230-241
ProductName(url, title) ==
  IF Contains(UrlPath(url), ProductsSegment)
    THEN NameFromPath(UrlPath(url))
    ELSE NameFromTitle(title)

\* ------------------------------------------------------------------------
\* extract_gender_info   (app.py 272-300): <<gender_ar, gender_en>>
\* ------------------------------------------------------------------------

\* any(word in text for word in words)
AnyIn(words, text) == \E i \in 1..Len(words) : Contains(text, words[i])

\* extract_gender_info with "men" looked for in the URL path before "women"
extract_gender_info_men_first(text, url_path) ==
  IF Contains(Lower(url_path), Chars("men"))
    THEN <<GenderMenAr, GenderMenEn>>
  ELSE IF Contains(Lower(url_path), Chars("women"))
    THEN <<GenderWomenAr, GenderWomenEn>>
  ELSE IF AnyIn(women_words_english, Lower(text))
    THEN <<GenderWomenAr, GenderWomenEn>>
  ELSE IF AnyIn(men_words_english, Lower(text))
    THEN <<GenderMenAr, GenderMenEn>>
  ELSE IF AnyIn(women_words_arabic, text)
    THEN <<GenderWomenAr, GenderWomenEn>>
  ELSE IF AnyIn(men_words_arabic, text)
    THEN <<GenderMenAr, GenderMenEn>>
  ELSE << <<>>, <<>> >>

extract_gender_info(text, url_path) ==
  IF Contains(Lower(url_path), Chars("women"))
    THEN <<GenderWomenAr, GenderWomenEn>>
  ELSE IF Contains(Lower(url_path), Chars("men"))
    THEN <<GenderMenAr, GenderMenEn>>
  ELSE IF AnyIn(women_words_english, Lower(text))
    THEN <<GenderWomenAr, GenderWomenEn>>
  ELSE IF AnyIn(men_words_english, Lower(text))
    THEN <<GenderMenAr, GenderMenEn>>
  ELSE IF AnyIn(women_words_arabic, text)
    THEN <<GenderWomenAr, GenderWomenEn>>
  ELSE IF AnyIn(men_words_arabic, text)
    THEN <<GenderMenAr, GenderMenEn>>
  ELSE << <<>>, <<>> >>

\* ------------------------------------------------------------------------
\* SEO titles   (app.py 305-318)
\* ------------------------------------------------------------------------

\* app.py 310-313
ArabicSeoTitle(product_name, gender_ar, selected_desc_ar) ==
  IF gender_ar # <<>>
    THEN product_name \o Ar(" | mn lAfyC | ETr ") \o gender_ar
           \o <<" ">> \o selected_desc_ar
    ELSE product_name \o Ar(" | mn lAfyC | ") \o selected_desc_ar

\* app.py 315-318
EnglishSeoTitle(product_name, gender_en, selected_desc_en) ==
  IF gender_en # <<>>
    THEN product_name \o Chars(" | from lavish | ") \o gender_en
           \o Chars(" perfume ") \o selected_desc_en
    ELSE product_name \o Chars(" | from lavish | ") \o selected_desc_en

\* ------------------------------------------------------------------------
\* generate_meta_description   (app.py 45-65).  Nothing in the try block
\* raises for str and list arguments, so the except branch is never taken.
\* ------------------------------------------------------------------------

\* the longest meta description returned untouched (app.py 59)
MetaLimit == 160

\* the length the description is cut to before "..." is added (app.py 60)
MetaCut == 157

\* the number of characters taken from the page's description (app.py 49)
BriefLimit == 50

\* generate_meta_description without its length check (app.py 59-60 left
\* out)
generate_meta_description_uncut(product_name, original_desc, marketing_words, fragrance_words) ==
  LET brief_desc == IF original_desc # <<>> /\ original_desc # NoDescription
                      THEN Take(original_desc, BriefLimit)
                      ELSE Ar("ETr ") \o product_name
  IN  brief_desc \o Chars(" - ") \o Join(<<" ">>, Take(fragrance_words, 1))
        \o Chars(". ") \o Join(<<" ">>, Take(marketing_words, 2))

generate_meta_description(product_name, original_desc, marketing_words, fragrance_words) ==
  LET brief_desc == IF original_desc # <<>> /\ original_desc # NoDescription
                      THEN Take(original_desc, BriefLimit)
                      ELSE Ar("ETr ") \o product_name
      marketing_part == Join(<<" ">>, Take(marketing_words, 2))
      fragrance_part == Join(<<" ">>, Take(fragrance_words, 1))
      description == brief_desc \o Chars(" - ") \o fragrance_part
                       \o Chars(". ") \o marketing_part
  IN  IF Len(description) > MetaLimit
        THEN Take(description, MetaCut) \o Chars("...")
        ELSE description

\* ------------------------------------------------------------------------
\* Keyword strings   (app.py 212-222, 323-325)
\* ------------------------------------------------------------------------

\* the number of page keywords of a language that are kept (app.py 213, 215)
TopKeywords == 10

\* the length arabic_keywords is cut to (app.py 324)
ArabicKeywordsLimit == 200

\* the number of entries of english_keywords (app.py 325)
EnglishKeywordsLimit == 25

\* ArabicKeywordsStr without the [:200] slice
ArabicKeywordsStr_uncut(all_arabic_keywords) ==
  Join(Ar("; "), all_arabic_keywords)

\* app.py 324
ArabicKeywordsStr(all_arabic_keywords) ==
  Take(Join(Ar("; "), all_arabic_keywords), ArabicKeywordsLimit)

\* app.py 325
EnglishKeywordsStr(all_english_keywords) ==
  Join(Chars(", "), Take(all_english_keywords, EnglishKeywordsLimit))

\* app.py 202-222: the page's top keywords and the sampled bank terms,
\* shuffled and without duplicates.  first is the number of the first of the
\* four random.sample calls, mix the number of the random.shuffle call.
AllKeywords(page_keywords, fragrance, marketing, local, comparison, seed, first, mix) ==
  Dedup(Shuffle(Take(page_keywords, TopKeywords)
                  \o Sample(fragrance, Min(4, Len(fragrance)), seed, first)
                  \o Sample(marketing, Min(5, Len(marketing)), seed, first + 1)
                  \o Sample(local, Min(3, Len(local)), seed, first + 2)
                  \o Sample(comparison, Min(2, Len(comparison)), seed, first + 3),
                seed, mix))

\* ------------------------------------------------------------------------
\* perform_analysis from the parsed page on   (app.py 101-338): the JSON
\* object of the 200 response
\* ------------------------------------------------------------------------

\* SeoResult with the SEO title returned as the title
SeoResult_swapped(title, description, meta_description, arabic_keywords_str, english_keywords_str, arabic_seo_title, english_seo_title, image_url) ==
  [ title             |-> english_seo_title,
    description       |-> description,
    meta_description  |-> meta_description,
    arabic_keywords   |-> arabic_keywords_str,
    english_keywords  |-> english_keywords_str,
    arabic_seo_title  |-> arabic_seo_title,
    english_seo_title |-> english_seo_title,
    image_url         |-> image_url ]

\* app.py 329-338
SeoResult(title, description, meta_description, arabic_keywords_str, english_keywords_str, arabic_seo_title, english_seo_title, image_url) ==
  [ title             |-> title,
    description       |-> description,
    meta_description  |-> meta_description,
    arabic_keywords   |-> arabic_keywords_str,
    english_keywords  |-> english_keywords_str,
    arabic_seo_title  |-> arabic_seo_title,
    english_seo_title |-> english_seo_title,
    image_url         |-> image_url ]

Analysis(url, page, seed, stopwords) ==
  LET title       == ExtractTitle(page)
      description == ExtractDescription(page)
      image_url   == ExtractImage(page, url)
      text        == GetText(page)
      keywords    == extract_keywords(FindAll(Lower(text)), stopwords)
      selected_fragrance_ar ==
        Sample(fragrance_keywords_arabic,
               Min(4, Len(fragrance_keywords_arabic)), seed, 1)
      selected_marketing_ar ==
        Sample(marketing_keywords_arabic,
               Min(5, Len(marketing_keywords_arabic)), seed, 2)
      all_arabic_keywords ==
        AllKeywords(ArabicOf(keywords), fragrance_keywords_arabic,
                    marketing_keywords_arabic, local_keywords_arabic,
                    comparison_keywords_arabic, seed, 1, 9)
      all_english_keywords ==
        AllKeywords(EnglishOf(keywords), fragrance_keywords_english,
                    marketing_keywords_english, local_keywords_english,
                    comparison_keywords_english, seed, 5, 10)
      product_name == ProductName(url, title)
      gender == extract_gender_info(description \o <<" ">> \o text,
                                    UrlPath(url))
      selected_desc_ar == Choice(arabic_attractive_descriptions, seed, 11)
      selected_desc_en == Choice(english_attractive_descriptions, seed, 12)
  IN  SeoResult(title, description,
                generate_meta_description(product_name, description,
                                          Take(selected_marketing_ar, 3),
                                          Take(selected_fragrance_ar, 2)),
                ArabicKeywordsStr(all_arabic_keywords),
                EnglishKeywordsStr(all_english_keywords),
                ArabicSeoTitle(product_name, gender[1], selected_desc_ar),
                EnglishSeoTitle(product_name, gender[2], selected_desc_en),
                image_url)

\* ------------------------------------------------------------------------
\* The environment of a request: request bodies, URLs, fetch outcomes
\* ------------------------------------------------------------------------

\* JSON values a request body can hold
JsonNull == [type |-> "null"]
JsonObject(members) == [type |-> "object", members |-> members]
JsonArray(items) == [type |-> "array", items |-> items]

\* not data   (app.py 87)
Falsy(data) ==
  \/ data.type = "null"
  \/ data.type = "object" /\ DOMAIN data.members = {}
  \/ data.type = "array" /\ Len(data.items) = 0

\* 'url' in data   (app.py 87): a key of an object, an element of an array
HasUrl(data) ==
  \/ data.type = "object" /\ "url" \in DOMAIN data.members
  \/ data.type = "array" /\ \E i \in 1..Len(data.items) : data.items[i] = "url"

LongSlug == Repeat(Chars("ab-"), LongSlugReps)

WomenUrl == Chars("https://site.com/products/so-scandal-edp-50ml-women/")
PlainUrl == Chars("http://shop.example/item/42?ref=women")
LongUrl == Chars("https://site.com/products/") \o LongSlug
NoSchemeUrl == Chars("site.com/products/oud")

Urls == {WomenUrl, PlainUrl, LongUrl, NoSchemeUrl}

\* the bodies of the POST requests: no JSON body at all, a body that is not
\* valid JSON, and JSON values with and without a "url"
RequestBodies ==
  {[kind |-> "none"], [kind |-> "malformed"]}
    \cup {[kind |-> "json", value |-> v] :
            v \in {JsonObject(<<>>),
                   JsonObject([k \in {"link"} |-> WomenUrl]),
                   JsonArray(<<"url">>)}
                  \cup {JsonObject([k \in {"url"} |-> u]) : u \in Urls}}

Endpoints == {"/analyze", "/reanalyze"}

FullPage ==
  [ title    |-> <<Chars(" Scandal Eau de Parfum | Lavish - Store ")>>,
    meta     |-> <<Chars(" Scandal by night, a scent of honey and tuberose made to be noticed \n")>>,
    og_image |-> <<Chars("https://cdn.site.com/og.png")>>,
    imgs     |-> << <<Chars("/img/first.png")>> >>,
    body     |-> Chars("Scandal perfume - the perfume for the night. Honey, tuberose, ")
                   \o Chars("blood-orange; 80ml. Add perfume to cart, scandal ")
                   \o Ar("ETr fAxr mn lAfyC") ]

ArabicPage ==
  [ title    |-> <<>>,
    meta     |-> <<>>,
    og_image |-> <<>>,
    imgs     |-> << <<Chars("//cdn.site.com/i.png")>> >>,
    body     |-> Ar("ETr llrjAl fAxr bvbAt Twyl wrAeHp Crqyp mmyzp mn lAfyC fy AlsEwdyp twSyl sryE ETr") ]

PlainPage ==
  [ title    |-> <<Chars("Oud Royal - 100ml")>>,
    meta     |-> <<Chars("   ")>>,
    og_image |-> <<<<>>>>,
    imgs     |-> << <<>>, <<Chars("/img/second.png")>> >>,
    body     |-> Chars("oud 100ml box") ]

EmptyPage ==
  [title |-> <<>>, meta |-> <<>>, og_image |-> <<>>, imgs |-> <<>>,
   body |-> <<>>]

Pages == {FullPage, ArabicPage, PlainPage, EmptyPage}

\* status codes of the final response of requests.get
StatusCodes == {200, 204, 304, 404, 503}

\* requests.get(url, timeout=10, headers=headers)   (app.py 98): it raises a
\* RequestException (no connection, timeout, a URL without http:// or
\* https://) or returns the final response
FetchOutcomes(url) ==
  {[kind |-> "exception", message |-> m] :
     m \in {Chars("timed out"), <<>>}}
    \cup IF StartsWith(url, Chars("http://")) \/ StartsWith(url, Chars("https://"))
           THEN {[kind |-> "response", status |-> 200, page |-> p] : p \in Pages}
                  \cup {[kind |-> "response", status |-> c, page |-> EmptyPage] :
                          c \in StatusCodes \ {200}}
           ELSE {}

\* response.raise_for_status()   (app.py 99): HTTPError for 4xx and 5xx
RaisesForStatus(status) == status >= 400 /\ status < 600

\* ------------------------------------------------------------------------
\* Responses
\* ------------------------------------------------------------------------

UrlRequired == Chars("URL is required")

FetchErrorPrefix == Ar("fCl fy tHmyl AlSfHp: ")

AnalysisErrorPrefix == Ar("xTO fy AltHlyl: ")

\* jsonify({"error": ...}), status
ErrorResponse(status, message) ==
  [status |-> status, body |-> [error |-> message]]

\* app.py 88
MissingUrlResponse == ErrorResponse(400, UrlRequired)

\* RequestErrorResponse with the status of the generic handler
RequestErrorResponse_500(message) ==
  ErrorResponse(500, FetchErrorPrefix \o message)

\* app.py 340-342
RequestErrorResponse(message) ==
  ErrorResponse(400, FetchErrorPrefix \o message)

\* app.py 343-345
UnexpectedErrorResponse(message) ==
  ErrorResponse(500, AnalysisErrorPrefix \o message)

\* app.py 329-338
OkResponse(result) == [status |-> 200, body |-> result]

NoResponse == [status |-> 0, body |-> [error |-> <<>>]]

NoFetch == [kind |-> "none"]

\* the words of the NLTK Arabic and English stop word lists that occur in
\* the modelled pages
NltkStopWords == {Chars("the"), Chars("for"), Chars("her"), Ar("mn"), Ar("fy")}

\* the two values stop_words can have after start-up (app.py 20-26)
StopWordSets == {NltkStopWords, {}}

\* the URLs requests.get accepts
HttpUrls ==
  {u \in Urls : StartsWith(u, Chars("http://")) \/ StartsWith(u, Chars("https://"))}

\* Analysis, tabulated over the requests of the model
AnalysisOf ==
  [u \in HttpUrls, p \in Pages, s \in Seeds, w \in StopWordSets |->
     Analysis(u, p, s, w)]

\* ------------------------------------------------------------------------
\* State
\* ------------------------------------------------------------------------

VARIABLES
  stop_words,   \* the module-level stop word set (app.py 20-26)
  pc,           \* "idle", "fetching" (inside requests.get) or "done"
  request,      \* the request being served: endpoint and body
  url,          \* data['url'] of the request, <<>> before it is read
  fetches,      \* outbound GETs made for the request
  fetched,      \* what requests.get did for the request
  analysed,     \* whether the request's page was parsed and synthesised
  seed,         \* the seed of the request's random source
  response,     \* the response of the request
  previous,     \* <<>> or <<r>>, r the last 200 response of an earlier
                \* request with its URL and page
  call,         \* a function applied on its own: its name and arguments
  ret           \* and its result

vars == <<stop_words, pc, request, url, fetches, fetched, analysed, seed,
          response, previous, call, ret>>

handler_vars == <<stop_words, pc, request, url, fetches, fetched, analysed,
                  seed, response, previous>>

NoRequest == [endpoint |-> "", body |-> [kind |-> "none"]]

NoCall == [fn |-> "none"]

\* process start: the stop words load or the except branch leaves them empty
Init ==
  /\ stop_words \in StopWordSets
  /\ pc = "idle"
  /\ request = NoRequest
  /\ url = <<>>
  /\ fetches = 0
  /\ fetched = NoFetch
  /\ analysed = FALSE
  /\ seed = 0
  /\ response = NoResponse
  /\ previous = <<>>
  /\ call = NoCall
  /\ ret = <<>>

\* request.get_json()   (app.py 86): TRUE when it raises.  It raises on a
\* body that is not valid JSON; on a request without a JSON body it raises
\* when the installed Flask is strict and returns None otherwise.
GetJsonRaises(body, strict) ==
  \/ body.kind = "malformed"
  \/ body.kind = "none" /\ strict

\* request.get_json() when it returns
GetJson(body) == IF body.kind = "json" THEN body.value ELSE JsonNull

\* history of the responses: when the next request arrives, the 200 response
\* of the request before it is recorded with its URL, page and seed
Remember ==
  IF response.status = 200
    THEN << [url |-> url, page |-> fetched.page, seed |-> seed,
             body |-> response.body] >>
    ELSE previous

\* perform_analysis up to requests.get   (app.py 84-98)
perform_analysis(endpoint, body, strict) ==
  /\ pc \in {"idle", "done"}
  /\ request' = [endpoint |-> endpoint, body |-> body]
  /\ previous' = Remember
  /\ fetches' = 0
  /\ fetched' = NoFetch
  /\ analysed' = FALSE
  /\ IF GetJsonRaises(body, strict)
       THEN /\ response' = UnexpectedErrorResponse(Chars("400 Bad Request"))
            /\ url' = <<>>
            /\ pc' = "done"
     ELSE IF Falsy(GetJson(body)) \/ ~HasUrl(GetJson(body))
       THEN /\ response' = MissingUrlResponse
            /\ url' = <<>>
            /\ pc' = "done"
     ELSE IF GetJson(body).type # "object"
       THEN \* data['url'] on a list: TypeError
            /\ response' = UnexpectedErrorResponse(Chars("list indices must be integers"))
            /\ url' = <<>>
            /\ pc' = "done"
     ELSE /\ response' = NoResponse
          /\ url' = GetJson(body).members["url"]
          /\ pc' = "fetching"
  /\ UNCHANGED <<stop_words, seed, call, ret>>

\* POST /analyze   (app.py 72-75)
analyze ==
  \E body \in RequestBodies, strict \in BOOLEAN :
    perform_analysis("/analyze", body, strict)

\* POST /reanalyze   (app.py 77-80)
reanalyze ==
  \E body \in RequestBodies, strict \in BOOLEAN :
    perform_analysis("/reanalyze", body, strict)

\* perform_analysis from the return of requests.get to the response
\* (app.py 98-345)
FetchReturns ==
  /\ pc = "fetching"
  /\ \E outcome \in FetchOutcomes(url), s \in Seeds :
       /\ fetches' = fetches + 1
       /\ fetched' = outcome
       /\ IF outcome.kind = "exception"
            THEN /\ response' = RequestErrorResponse(outcome.message)
                 /\ UNCHANGED <<analysed, seed>>
          ELSE IF RaisesForStatus(outcome.status)
            THEN /\ response' = RequestErrorResponse(Chars("HTTP Error for url"))
                 /\ UNCHANGED <<analysed, seed>>
          ELSE /\ analysed' = TRUE
               /\ seed' = s
               /\ response' = OkResponse(AnalysisOf[url, outcome.page, s, stop_words])
  /\ pc' = "done"
  /\ UNCHANGED <<stop_words, request, url, previous, call, ret>>

Next == analyze \/ reanalyze \/ FetchReturns

Spec == Init /\ [][Next]_vars

\* ------------------------------------------------------------------------
\* The functions of perform_analysis applied on their own
\* ------------------------------------------------------------------------

\* the longest path, in segments, and the longest URL path, in fragments,
\* that the functions are applied to
MaxSegments == 3
MaxFragments == 3

InitFn ==
  /\ stop_words = {}
  /\ pc = "idle"
  /\ request = NoRequest
  /\ url = <<>>
  /\ fetches = 0
  /\ fetched = NoFetch
  /\ analysed = FALSE
  /\ seed = 0
  /\ response = NoResponse
  /\ previous = <<>>
  /\ call = NoCall
  /\ ret = <<>>

\* all sequences of 1..n elements of set
SeqsUpTo(set, n) == UNION {[1..k -> set] : k \in 1..n}

\* the concatenation of the sequences in parts
RECURSIVE Concat(_)
Concat(parts) ==
  IF Len(parts) = 0 THEN <<>> ELSE parts[1] \o Concat(Tail(parts))

NameSegments == {Chars("products"), Chars("slug"), Chars("reviews"), <<>>}

NameUrls ==
  {Chars("https://site.com/") \o Join(<<"/">>, segs) \o query :
     segs \in SeqsUpTo(NameSegments, MaxSegments),
     query \in {<<>>, Chars("?from=/products/x")}}

NameTitles ==
  { Chars("Oud Royal"), Chars("Oud Royal | Lavish"), Chars("Oud Royal - Lavish"),
    Chars("Oud - Royal | Lavish"), Chars("Oud | Royal - Lavish"),
    Chars("A - | B"), Chars("A | - B"), Chars("Oud-Royal|Lavish"),
    Chars(" | Lavish"), NoTitle, <<>> }

\* product_name of app.py 224-241 for a URL and an extracted title
ApplyProductName ==
  /\ call = NoCall
  /\ \E u \in NameUrls, title \in NameTitles :
       /\ call' = [fn |-> "ProductName", url |-> u, title |-> title]
       /\ ret' = ProductName(u, title)
  /\ UNCHANGED handler_vars

SpecName == InitFn /\ [][ApplyProductName]_vars

GenderFragments == {Chars("/"), Chars("wo"), Chars("men"), Chars("WoMen"), Chars("x")}

GenderPaths == {Concat(parts) : parts \in SeqsUpTo(GenderFragments, MaxFragments)}

GenderTexts ==
  { <<>>, Chars("a scent made for Her"), Chars("a gentleman's choice"),
    Chars("top notes"), Chars("in the box"), Chars("oud 100ml"),
    Ar("ETr nsAey fAxr"), Ar("ETr llrjAl"), Ar("ETr fAxr"),
    Ar("ETr nsAey ") \o Chars("for a man"),
    Ar("ETr rjAly ") \o Chars("for a lady"),
    Ar("ETr rjAly w nsAey") }

\* extract_gender_info of app.py 272-300 for a text and a URL path
ApplyGender ==
  /\ call = NoCall
  /\ \E text \in GenderTexts, path \in GenderPaths :
       /\ call' = [fn |-> "extract_gender_info", text |-> text, url_path |-> path]
       /\ ret' = extract_gender_info(text, path)
  /\ UNCHANGED handler_vars

SpecGender == InitFn /\ [][ApplyGender]_vars

ImageUrls ==
  { Chars("https://site.com/products/oud"), Chars("http://shop.example/item/42"),
    Chars("http://shop.example"), Chars("https://site.com/a/b/?x=/y#z"),
    Chars("http://cdn.shop.example:8080/p") }

ImageOgs == { <<>>, <<<<>>>>, <<Chars("https://cdn.site.com/og.png")>> }

ImageImgs ==
  { <<>>, << <<>> >>, << <<<<>>>> >>,
    << <<Chars("//cdn.site.com/i.png")>> >>,
    << <<Chars("/img/i.png")>> >>,
    << <<Chars("img/i.png")>> >>,
    << <<Chars("http://other.example/i.png")>> >>,
    << <<>>, <<Chars("/img/second.png")>> >>,
    << <<Chars("/img/i.png")>>, <<Chars("//cdn.site.com/i.png")>> >> }

\* image_url of app.py 115-131 for a page and its URL
ApplyImage ==
  /\ call = NoCall
  /\ \E u \in ImageUrls, og \in ImageOgs, imgs \in ImageImgs :
       LET page == [EmptyPage EXCEPT !.og_image = og, !.imgs = imgs]
       IN  /\ call' = [fn |-> "ExtractImage", page |-> page, url |-> u]
           /\ ret' = ExtractImage(page, u)
  /\ UNCHANGED handler_vars

SpecImage == InitFn /\ [][ApplyImage]_vars

\* ------------------------------------------------------------------------
\* Properties
\* ------------------------------------------------------------------------

Ok == response.status = 200

\* C1: the meta_description of every 200 response is at most 160 characters
\* long, also when the page has no description and the product name that
\* replaces it is longer than that.
C1_MetaDescriptionBounded ==
  Ok => Len(response.body.meta_description) <= 160

\* a 200 response for a page without description whose product name alone is
\* longer than 160 characters: the meta description was cut to 157 + "..."
C1_Witness ==
  /\ Ok
  /\ response.body.description = NoDescription
  /\ Len(ProductName(url, response.body.title)) > 160
  /\ Len(response.body.meta_description) = 160
  /\ Drop(response.body.meta_description, 157) = Chars("...")

\* the number of entries of a string of entries separated by ", "
EntryCount(str) ==
  IF Len(str) = 0 THEN 0
  ELSE 1 + Cardinality({i \in 1..Len(str) : OccursAt(str, Chars(", "), i)})

\* C2: in every 200 response english_keywords has at most 25 comma-separated
\* entries and arabic_keywords has at most 200 characters.
C2_KeywordsBounded ==
  Ok => /\ EntryCount(response.body.english_keywords) <= 25
        /\ Len(response.body.arabic_keywords) <= 200

\* a 200 response whose Arabic keywords filled the 200 characters and whose
\* English keywords are the page's and all fourteen sampled terms
C2_Witness ==
  /\ Ok
  /\ Len(response.body.arabic_keywords) = 200
  /\ EntryCount(response.body.english_keywords) > 14

FetchReturned == pc = "done" /\ fetched.kind # "none"

ErrorWith400 ==
  /\ response.status = 400
  /\ "error" \in DOMAIN response.body
  /\ response.body.error # <<>>

\* C3 as stated: when the outbound fetch raises or ends with a status that
\* is not 2xx, the request ends with 400 and a non-empty error, and nothing
\* was parsed or synthesised.
C3_AnyNon2xxIs400 ==
  (FetchReturned /\ (\/ fetched.kind = "exception"
                     \/ fetched.status \notin 200..299))
    => (ErrorWith400 /\ ~analysed)

\* C3 amended: when the outbound fetch raises or ends with a 4xx or 5xx
\* status, the request ends with 400 and a non-empty error, never with 200
\* or 500, and nothing was parsed or synthesised.
C3_FailedFetchIs400 ==
  (FetchReturned /\ (\/ fetched.kind = "exception"
                     \/ fetched.status \in 400..599))
    => (ErrorWith400 /\ ~analysed)

\* a 404 answered with 400
C3_Witness ==
  /\ FetchReturned
  /\ fetched.kind = "response"
  /\ fetched.status = 404
  /\ ErrorWith400
  /\ fetches = 1

\* the request has no URL: no JSON body, or a JSON body without a "url" key
MissingUrl(body) ==
  \/ body.kind = "none"
  \/ /\ body.kind = "json"
     /\ ~(body.value.type = "object" /\ "url" \in DOMAIN body.value.members)

\* C4: a POST to /analyze or /reanalyze without a URL ends with 400 and an
\* error field, and no outbound fetch is made for it.
C4_MissingUrlIs400 ==
  (pc = "done" /\ request.endpoint \in Endpoints /\ MissingUrl(request.body))
    => /\ response.status = 400
       /\ "error" \in DOMAIN response.body
       /\ fetches = 0

NameCall == call.fn = "ProductName"

\* the last segment of a path, trailing slashes removed
TrailingSegment(path) ==
  Drop(RStripChar(path, "/"), LastIndexOf(RStripChar(path, "/"), "/"))

GenderCall == call.fn = "extract_gender_info"

Women == <<GenderWomenAr, GenderWomenEn>>
Men == <<GenderMenAr, GenderMenEn>>
NoGender == << <<>>, <<>> >>

\* the gender words of the four lists, as sets
WordSet(words) == {words[i] : i \in 1..Len(words)}

C7_SameExtraction ==
  (Ok /\ previous # <<>> /\ previous[1].url = url
      /\ previous[1].page = fetched.page)
    => /\ response.body.title = previous[1].body.title
       /\ response.body.description = previous[1].body.description
       /\ response.body.image_url = previous[1].body.image_url

\* two such requests whose random draws differed, and with them the keyword
\* strings and the SEO titles
C7_Witness ==
  /\ Ok
  /\ previous # <<>>
  /\ previous[1].url = url
  /\ previous[1].page = fetched.page
  /\ previous[1].seed # seed
  /\ response.body.title # NoTitle
  /\ response.body.image_url # <<>>
  /\ response.body.arabic_keywords # previous[1].body.arabic_keywords
  /\ response.body.english_seo_title # previous[1].body.english_seo_title

\* C8: the English SEO title is "{productName} | from lavish | {gender}
\* {descriptor}", without the gender when none was detected, the descriptor
\* one of the ten English phrases; the Arabic title mirrors it.
C8_SeoTitleFormat ==
  Ok =>
    LET name == ProductName(url, response.body.title)
        gender == extract_gender_info(
                    response.body.description \o <<" ">> \o GetText(fetched.page),
                    UrlPath(url))
        label(g) == IF g # <<>> THEN g \o <<" ">> ELSE <<>>
    IN  /\ \E d \in WordSet(english_attractive_descriptions) :
             response.body.english_seo_title =
               name \o Chars(" | from lavish | ") \o label(gender[2]) \o d
        /\ \E d \in WordSet(arabic_attractive_descriptions) :
             response.body.arabic_seo_title =
               name \o Ar(" | mn lAfyC | ") \o label(gender[1]) \o d

\* the index of the first " | " or " - " of a title, 0 when it has neither
FirstSeparator(title) ==
  LET at == {i \in 1..Len(title) :
               OccursAt(title, Chars(" | "), i) \/ OccursAt(title, Chars(" - "), i)}
  IN  IF at = {} THEN 0 ELSE CHOOSE i \in at : \A j \in at : i <= j

\* C9: without "/products/" in the URL path the product name is the title up
\* to its first " | " or " - ", whichever comes first, and the whole title
\* when it has neither.
C9_NameIsTitlePrefix ==
  (NameCall /\ ~Contains(UrlPath(call.url), ProductsSegment)
     /\ call.title # <<>> /\ call.title # NoTitle)
    => ret = IF FirstSeparator(call.title) = 0 THEN call.title
             ELSE Take(call.title, FirstSeparator(call.title) - 1)

ImageCall == call.fn = "ExtractImage"

\* C10: image_url is the og:image content when there is one; otherwise the
\* src of the first <img>, a "//" src given the scheme of the page URL and a
\* "/" src its scheme and host; it is empty when the page has neither.
C10_ImageResolved ==
  ImageCall =>
    LET og == call.page.og_image
        imgs == call.page.imgs
        src == imgs[1][1]
    IN  ret = IF og # <<>> /\ og[1] # <<>> THEN og[1]
              ELSE IF imgs = <<>> \/ imgs[1] = <<>> \/ src = <<>> THEN <<>>
              ELSE IF StartsWith(src, Chars("//"))
                THEN UrlScheme(call.url) \o <<":">> \o src
              ELSE IF StartsWith(src, Chars("/"))
                THEN UrlScheme(call.url) \o Chars("://") \o UrlNetloc(call.url) \o src
              ELSE src
====
